---------------------------- MODULE Spec2Model ----------------------------
(***************************************************************************)
(* The Apply from-clause of lib/sqlalchemy/dialects/mssql/apply.py and its *)
(* two public factories of lib/sqlalchemy/dialects/mssql/ext.py.           *)
(*                                                                         *)
(* Objects live in a heap, a sequence of records; an object's identity is  *)
(* its index in the heap (Python's "is" is equality of indices).  Three    *)
(* kinds of relation exist: "table" (a base relation), "apply" (the class  *)
(* Apply) and "grouping" (FromGrouping).  Everything the class Apply does  *)
(* itself is translated from apply.py; what its collaborators do (the      *)
(* coercion service, the base from-clause, FromGrouping, the column        *)
(* collection, Select) is not part of these two files and is modelled from *)
(* the relation-expression contract of the specification.                  *)
(***************************************************************************)
EXTENDS Integers, Sequences, FiniteSets, TLC

VARIABLES heap, result

vars == <<heap, result>>

(***************************************************************************)
(* Bounds and input sets.                                                  *)
(***************************************************************************)

\* The number of objects the heap may hold (the two tables included).
MaxObjs == 5

\* The same bound for the specifications that branch widely: the one with
\* both factories and every way of passing isouter, and the one that
\* follows the contents of the column collections.
MaxObjsWide == 4

\* A value that is no relation expression and that coercion rejects.
NotARelation == 0

\* The ways the isouter parameter of apply() is passed.
IsOuterArgs == {"default", "False", "True"}

\* The values of the "against" hint of self_group().
AgainstArgs == {"None", "operator"}

\* The where criteria given to select().
WhereArgs == {"None", "criterion"}

\* The keys of the columns a table may gain after its construction.
NewColumnKeys == {"c"}

(***************************************************************************)
(* Objects.                                                                *)
(***************************************************************************)

\* A column of a table: the table that owns it and its key.
Column(tbl, key) ==
    [tbl |-> tbl, key |-> key]

\* The fields every heap object carries; a kind uses only its own.
BlankObj ==
    [kind |-> "none", left |-> 0, right |-> 0, isouter |-> FALSE,
     element |-> 0, cols |-> <<>>, populated |-> FALSE, columns |-> <<>>,
     foreign_keys |-> {}]

\* A base table with the columns cols.
TableObj(cols) ==
    [BlankObj EXCEPT !.kind = "table", !.cols = cols]

\* FromGrouping(element).
FromGrouping(element) ==
    [BlankObj EXCEPT !.kind = "grouping", !.element = element]

\* The fields Apply.__init__ assigns; the column collection is left
\* unpopulated.
ApplyObj(left, right, isouter) ==
    [BlankObj EXCEPT !.kind = "apply", !.left = left, !.right = right,
                     !.isouter = isouter]

\* x is an Apply of the heap.
IsApply(h, id) ==
    id \in DOMAIN h /\ h[id].kind = "apply"

\* x is a FromGrouping of the heap.
IsGrouping(h, id) ==
    id \in DOMAIN h /\ h[id].kind = "grouping"

\* The result of the last operation; an operation sets the fields it uses.
NoResult ==
    [op |-> "none", self |-> 0, left |-> 0, right |-> 0, arg |-> "None",
     raised |-> FALSE, error |-> "None", value |-> 0, flag |-> FALSE,
     seq |-> <<>>, steps |-> <<>>, froms |-> <<>>, where |-> "None"]

(***************************************************************************)
(* Construction.                                                           *)
(***************************************************************************)

\* coercions.expect(roles.FromClauseRole, value): a relation is returned as
\* it is, anything else is refused.
expect(h, value) ==
    IF value \in DOMAIN h
    THEN [ok |-> TRUE, value |-> value]
    ELSE [ok |-> FALSE, value |-> NotARelation]

\* A mutant of Apply_self_group: the Apply is returned unwrapped.
Apply_self_group_unwrapped(h, self, against) ==
    [heap |-> h, value |-> self]

\* Apply.self_group(against): FromGrouping(self), whatever against is.
Apply_self_group(h, self, against) ==
    [heap |-> Append(h, FromGrouping(self)), value |-> Len(h) + 1]

\* self_group() of any relation: an Apply wraps itself, a grouping and a
\* base table return themselves.
self_group(h, id, against) ==
    IF h[id].kind = "apply"
    THEN Apply_self_group(h, id, against)
    ELSE [heap |-> h, value |-> id]

\* A mutant of __init__: the right side is stored without self_group().
__init__ungrouped(h, left, right, isouter) ==
    LET l == expect(h, left)
        r == expect(h, right)
    IN  IF ~l.ok
        THEN [raised |-> TRUE, heap |-> h, self |-> 0,
              steps |-> <<"expect_left">>]
        ELSE IF ~r.ok
        THEN [raised |-> TRUE, heap |-> h, self |-> 0,
              steps |-> <<"expect_left", "expect_right">>]
        ELSE [raised |-> FALSE,
              heap |-> Append(h, ApplyObj(l.value, r.value, isouter)),
              self |-> Len(h) + 1,
              steps |-> <<"expect_left", "expect_right", "isouter">>]

\* A mutant of __init__: the right side is coerced and grouped before the
\* left side is coerced.
__init__right_first(h, left, right, isouter) ==
    LET l == expect(h, left)
        r == expect(h, right)
    IN  IF ~r.ok
        THEN [raised |-> TRUE, heap |-> h, self |-> 0,
              steps |-> <<"expect_right">>]
        ELSE LET g == self_group(h, r.value, "None")
             IN  IF ~l.ok
                 THEN [raised |-> TRUE, heap |-> g.heap, self |-> 0,
                       steps |-> <<"expect_right", "self_group",
                                   "expect_left">>]
                 ELSE [raised |-> FALSE,
                       heap |-> Append(g.heap,
                                       ApplyObj(l.value, g.value, isouter)),
                       self |-> Len(g.heap) + 1,
                       steps |-> <<"expect_right", "self_group",
                                   "expect_left", "isouter">>]

\* A mutant of __init__: the column collection is populated eagerly.
__init__eager(h, left, right, isouter) ==
    LET l == expect(h, left)
        r == expect(h, right)
    IN  IF ~l.ok
        THEN [raised |-> TRUE, heap |-> h, self |-> 0,
              steps |-> <<"expect_left">>]
        ELSE IF ~r.ok
        THEN [raised |-> TRUE, heap |-> h, self |-> 0,
              steps |-> <<"expect_left", "expect_right">>]
        ELSE LET g == self_group(h, r.value, "None")
             IN  [raised |-> FALSE,
                  heap |-> Append(g.heap,
                                  [ApplyObj(l.value, g.value, isouter)
                                     EXCEPT !.populated = TRUE]),
                  self |-> Len(g.heap) + 1,
                  steps |-> <<"expect_left", "expect_right", "self_group",
                              "isouter">>]

\* Apply.__init__(left, right, isouter): left is coerced, then right is
\* coerced and grouped, then isouter is stored.  A refused coercion raises
\* at that point and nothing after it runs.
__init__(h, left, right, isouter) ==
    LET l == expect(h, left)
    IN  IF ~l.ok
        THEN [raised |-> TRUE, heap |-> h, self |-> 0,
              steps |-> <<"expect_left">>]
        ELSE LET r == expect(h, right)
             IN  IF ~r.ok
                 THEN [raised |-> TRUE, heap |-> h, self |-> 0,
                       steps |-> <<"expect_left", "expect_right">>]
                 ELSE LET g == self_group(h, r.value, "None")
                      IN  [raised |-> FALSE,
                           heap |-> Append(g.heap,
                                           ApplyObj(l.value, g.value,
                                                    isouter)),
                           self |-> Len(g.heap) + 1,
                           steps |-> <<"expect_left", "expect_right",
                                       "self_group", "isouter">>]

\* A mutant of _create_outerapply: isouter is not passed on.
_create_outerapply_inner(h, left, right) ==
    __init__(h, left, right, FALSE)

\* Apply._create_outerapply(left, right): cls(left, right, isouter=True).
_create_outerapply(h, left, right) ==
    __init__(h, left, right, TRUE)

\* Apply._create_apply(left, right, isouter=False): cls(left, right, isouter).
_create_apply(h, left, right, isouter) ==
    __init__(h, left, right, isouter)

\* The value of the isouter parameter of apply() for each way of passing it.
IsOuterValue(arg) ==
    arg = "True"

\* The values a caller may pass as left or right: every object of the heap
\* and a value that is no relation.
Inputs(h) ==
    DOMAIN h \cup {NotARelation}

\* What a construction leaves in result.
Constructed(op, r, left, right, arg) ==
    [NoResult EXCEPT !.op = op, !.self = r.self, !.left = left,
                     !.right = right, !.arg = arg, !.raised = r.raised,
                     !.error = IF r.raised THEN "TypeConversionError"
                               ELSE "None",
                     !.value = r.self, !.steps = r.steps]

(***************************************************************************)
(* The column collection.                                                  *)
(***************************************************************************)

\* col._key_label: the key a column takes in a merged collection.
_key_label(col) ==
    col.key

\* col.foreign_keys: column b of the second table references column b of
\* the first one; no other column has a foreign key.
foreign_keys(col) ==
    IF col = Column(2, "b") THEN {Column(1, "b")} ELSE {}

\* The keys of a keyed collection, a sequence of <<key, column>> entries.
KeysOf(coll) ==
    {coll[i][1] : i \in DOMAIN coll}

\* The columns of a keyed collection, in its order.
ValuesOf(coll) ==
    [i \in DOMAIN coll |-> coll[i][2]]

\* One keyed insertion: a new key is appended, a key already present keeps
\* its place and takes the later column.
Put(coll, key, col) ==
    IF key \in KeysOf(coll)
    THEN [i \in DOMAIN coll |->
             IF coll[i][1] = key THEN <<key, col>> ELSE coll[i]]
    ELSE Append(coll, <<key, col>>)

RECURSIVE _populate_separate_keys(_, _)
\* ColumnCollection._populate_separate_keys(iter_): the (key, column) pairs
\* inserted one after the other.
_populate_separate_keys(coll, pairs) ==
    IF pairs = <<>>
    THEN coll
    ELSE _populate_separate_keys(Put(coll, Head(pairs)[1], Head(pairs)[2]),
                                 Tail(pairs))

RECURSIVE columns(_, _)

\* A mutant of _populate_column_collection: the right columns are taken
\* before the left ones.
_populate_column_collection_right_first(h, self) ==
    LET cols == columns(h, h[self].right) \o columns(h, h[self].left)
    IN  [h[self] EXCEPT
           !.populated = TRUE,
           !.columns = _populate_separate_keys(
                          @,
                          [i \in DOMAIN cols |->
                              <<_key_label(cols[i]), cols[i]>>]),
           !.foreign_keys =
               @ \cup UNION {foreign_keys(cols[i]) : i \in DOMAIN cols}]

\* Apply._populate_column_collection(): the columns of left, then those of
\* right, keyed by _key_label; the foreign keys of all of them.  Returns
\* the Apply with its collections filled.
_populate_column_collection(h, self) ==
    LET cols == columns(h, h[self].left) \o columns(h, h[self].right)
    IN  [h[self] EXCEPT
           !.populated = TRUE,
           !.columns = _populate_separate_keys(
                          @,
                          [i \in DOMAIN cols |->
                              <<_key_label(cols[i]), cols[i]>>]),
           !.foreign_keys =
               @ \cup UNION {foreign_keys(cols[i]) : i \in DOMAIN cols}]

\* x.columns, as a sequence: the columns of a table, those of the element
\* of a grouping, the collection of an Apply (populated on first access).
columns(h, id) ==
    IF h[id].kind = "apply"
    THEN IF h[id].populated
         THEN ValuesOf(h[id].columns)
         ELSE ValuesOf(_populate_column_collection(h, id).columns)
    ELSE IF h[id].kind = "grouping"
    THEN columns(h, h[id].element)
    ELSE h[id].cols

RECURSIVE Populating(_, _)
\* The Applies whose collection an access to x.columns populates: x itself
\* when it is not populated yet, and those its population reads.
Populating(h, id) ==
    IF h[id].kind = "apply"
    THEN IF h[id].populated
         THEN {}
         ELSE {id} \cup Populating(h, h[id].left)
                   \cup Populating(h, h[id].right)
    ELSE IF h[id].kind = "grouping"
    THEN Populating(h, h[id].element)
    ELSE {}

\* The heap after an access to x.columns.
columns_access(h, id) ==
    [i \in DOMAIN h |->
        IF i \in Populating(h, id)
        THEN _populate_column_collection(h, i)
        ELSE h[i]]

(***************************************************************************)
(* Refresh for a new column.                                               *)
(***************************************************************************)

RECURSIVE Tables(_, _)
\* The tables a relation draws its columns from.
Tables(h, id) ==
    IF h[id].kind = "apply"
    THEN Tables(h, h[id].left) \cup Tables(h, h[id].right)
    ELSE IF h[id].kind = "grouping"
    THEN Tables(h, h[id].element)
    ELSE {id}

\* The base refresh of a from-clause, FromClause._refresh_for_new_column:
\* a populated collection takes the column of a participating table under
\* its key, in place; an unpopulated one is left for its first access.
FromClause_refresh_for_new_column(h, self, column) ==
    IF h[self].populated /\ column.tbl \in Tables(h, self)
    THEN [h EXCEPT ![self].columns = Put(@, _key_label(column), column),
                   ![self].foreign_keys = @ \cup foreign_keys(column)]
    ELSE h

RECURSIVE refresh_for_new_column(_, _, _)

\* A mutant of _refresh_for_new_column: the base refresh runs last.
_refresh_for_new_column_base_last(h, self, column) ==
    LET h1 == refresh_for_new_column(h, h[self].left, column)
        h2 == refresh_for_new_column(h1, h1[self].right, column)
        h3 == FromClause_refresh_for_new_column(h2, self, column)
    IN  [heap |-> h3,
         steps |-> <<"left", "right", "super">>]

\* Apply._refresh_for_new_column(column): the base refresh of this node,
\* then left's refresh, then right's.  steps lists the calls in the order
\* they are made.
_refresh_for_new_column(h, self, column) ==
    LET h1 == FromClause_refresh_for_new_column(h, self, column)
        h2 == refresh_for_new_column(h1, h1[self].left, column)
        h3 == refresh_for_new_column(h2, h2[self].right, column)
    IN  [heap |-> h3,
         steps |-> <<"super", "left", "right">>]

\* x._refresh_for_new_column(column) of any relation: an Apply runs its
\* own, a grouping hands the notification to its element, a table (which
\* holds the column already) changes nothing.
refresh_for_new_column(h, id, column) ==
    IF h[id].kind = "apply"
    THEN _refresh_for_new_column(h, id, column).heap
    ELSE IF h[id].kind = "grouping"
    THEN refresh_for_new_column(h, h[id].element, column)
    ELSE h

\* The keys of the columns the two tables are constructed with: left
\* [a, b] and right [b, c], whose columns b share a key.
InitialKeys(t) ==
    IF t = 1 THEN {"a", "b"} ELSE {"b", "c"}

\* Every column a table of the heap holds.
TableColumns(h) ==
    UNION {{h[t].cols[i] : i \in DOMAIN h[t].cols} :
             t \in {x \in DOMAIN h : h[x].kind = "table"}}

\* The columns the tables gained after their construction.
NewColumns(h) ==
    {c \in TableColumns(h) : c.key \notin InitialKeys(c.tbl)}

\* The keys of the columns of a table.
TableKeys(h, t) ==
    {h[t].cols[i].key : i \in DOMAIN h[t].cols}

(***************************************************************************)
(* Queries.                                                                *)
(***************************************************************************)

RECURSIVE _from_objects(_, _)

\* A mutant of Apply_from_objects: the Apply comes after its left side.
Apply_from_objects_left_first(h, self) ==
    _from_objects(h, h[self].left) \o <<self>>
        \o _from_objects(h, h[self].right)

\* Apply._from_objects: [self] + left._from_objects + right._from_objects.
Apply_from_objects(h, self) ==
    <<self>> \o _from_objects(h, h[self].left)
        \o _from_objects(h, h[self].right)

\* x._from_objects: a table is its own from-object, a grouping has those of
\* its element.
_from_objects(h, id) ==
    IF h[id].kind = "apply"
    THEN Apply_from_objects(h, id)
    ELSE IF h[id].kind = "grouping"
    THEN _from_objects(h, h[id].element)
    ELSE <<id>>

RECURSIVE is_derived_from(_, _, _)

\* A mutant of Apply_is_derived_from: the left side is not asked.
Apply_is_derived_from_right_only(h, self, fromclause) ==
    IF fromclause = self
    THEN [value |-> TRUE, asked |-> <<>>]
    ELSE [value |-> is_derived_from(h, h[self].right, fromclause),
          asked |-> <<"right">>]

\* Apply.is_derived_from(fromclause): fromclause is self, or left is
\* derived from it, or right is; "or" stops at the first true operand.
\* asked lists the sides that were asked.
Apply_is_derived_from(h, self, fromclause) ==
    IF fromclause = self
    THEN [value |-> TRUE, asked |-> <<>>]
    ELSE IF is_derived_from(h, h[self].left, fromclause)
    THEN [value |-> TRUE, asked |-> <<"left">>]
    ELSE [value |-> is_derived_from(h, h[self].right, fromclause),
          asked |-> <<"left", "right">>]

\* x.is_derived_from(fromclause): a relation is derived from itself, and a
\* grouping from what its element is derived from.
is_derived_from(h, id, fromclause) ==
    IF h[id].kind = "apply"
    THEN Apply_is_derived_from(h, id, fromclause).value
    ELSE IF h[id].kind = "grouping"
    THEN fromclause = id \/ is_derived_from(h, h[id].element, fromclause)
    ELSE fromclause = id

RECURSIVE Flat(_)
\* The concatenation of a sequence of sequences.
Flat(seqs) ==
    IF seqs = <<>> THEN <<>> ELSE Head(seqs) \o Flat(Tail(seqs))

\* Select(columns, whereclause, from_obj=...): each entry of the column
\* list gives its own columns; the declared FROM list is from_obj.
Select(h, collist, whereclause, from_obj) ==
    [columns |-> Flat([i \in DOMAIN collist |-> columns(h, collist[i])]),
     whereclause |-> whereclause,
     from_obj |-> from_obj]

\* A mutant of select: the statement has no declared FROM source.
select_no_from(h, self, whereclause) ==
    Select(h, <<h[self].left, h[self].right>>, whereclause, <<>>)

\* Apply.select(whereclause): Select([left, right], whereclause,
\* from_obj=[self]).
select(h, self, whereclause) ==
    Select(h, <<h[self].left, h[self].right>>, whereclause, <<self>>)

\* The Applies of the heap.
Applies(h) ==
    {id \in DOMAIN h : h[id].kind = "apply"}

(***************************************************************************)
(* Actions.                                                                *)
(***************************************************************************)

\* A construction is made while the objects it creates fit the heap.
Room(h, limit) ==
    Len(h) <= limit

\* ext.apply(left, right[, isouter]).
apply(limit) ==
    \E left \in Inputs(heap), right \in Inputs(heap), arg \in IsOuterArgs :
        LET r == _create_apply(heap, left, right, IsOuterValue(arg))
        IN  /\ Room(r.heap, limit)
            /\ heap' = r.heap
            /\ result' = Constructed("apply", r, left, right, arg)

\* ext.outerapply(left, right).
outerapply(limit) ==
    \E left \in Inputs(heap), right \in Inputs(heap) :
        LET r == _create_outerapply(heap, left, right)
        IN  /\ Room(r.heap, limit)
            /\ heap' = r.heap
            /\ result' = Constructed("outerapply", r, left, right, "None")

\* x.self_group(against) of a relation of the heap.
SelfGroup ==
    \E id \in DOMAIN heap, against \in AgainstArgs :
        LET g == self_group(heap, id, against)
        IN  /\ Len(heap) + 1 <= MaxObjs
            /\ heap' = g.heap
            /\ result' = [NoResult EXCEPT !.op = "self_group", !.self = id,
                                          !.arg = against, !.value = g.value]

\* a._from_objects of an Apply of the heap.
FromObjects ==
    \E id \in Applies(heap) :
        /\ heap' = heap
        /\ result' = [NoResult EXCEPT !.op = "from_objects", !.self = id,
                                      !.seq = Apply_from_objects(heap, id)]

\* a.is_derived_from(x) of an Apply and a relation of the heap.
IsDerivedFrom ==
    \E id \in Applies(heap), x \in DOMAIN heap :
        LET r == Apply_is_derived_from(heap, id, x)
        IN  /\ heap' = heap
            /\ result' = [NoResult EXCEPT !.op = "is_derived_from",
                                          !.self = id, !.value = x,
                                          !.flag = r.value, !.steps = r.asked]

\* a.select(whereclause) of an Apply of the heap.
SelectCall ==
    \E id \in Applies(heap), w \in WhereArgs :
        LET s == select(heap, id, w)
        IN  /\ heap' = heap
            /\ result' = [NoResult EXCEPT !.op = "select", !.self = id,
                                          !.arg = w, !.seq = s.columns,
                                          !.where = s.whereclause,
                                          !.froms = s.from_obj]

\* a.columns of an Apply of the heap: the first access populates the
\* collection, a later one returns it as it is.
ColumnsAccess ==
    \E id \in Applies(heap) :
        /\ heap' = columns_access(heap, id)
        /\ result' = [NoResult EXCEPT !.op = "columns", !.self = id,
                                      !.flag = ~heap[id].populated,
                                      !.seq = columns(heap, id)]

\* A table gains a column.
AppendColumn ==
    \E t \in {x \in DOMAIN heap : heap[x].kind = "table"} :
        \E key \in NewColumnKeys \ TableKeys(heap, t) :
            /\ heap' = [heap EXCEPT ![t].cols = Append(@, Column(t, key))]
            /\ result' = [NoResult EXCEPT !.op = "append_column",
                                          !.self = t, !.arg = key]

\* a._refresh_for_new_column(column) of an Apply of the heap, for a column
\* a table of the heap has gained.
Refresh ==
    \E id \in Applies(heap), column \in NewColumns(heap) :
        LET r == _refresh_for_new_column(heap, id, column)
        IN  /\ heap' = r.heap
            /\ result' = [NoResult EXCEPT !.op = "refresh", !.self = id,
                                          !.left = column.tbl,
                                          !.arg = column.key,
                                          !.steps = r.steps]

\* The two tables of the example of the specification: left [a, b] and
\* right [b, c], whose columns b share a key.
Init ==
    /\ heap = << TableObj(<<Column(1, "a"), Column(1, "b")>>),
                 TableObj(<<Column(2, "b"), Column(2, "c")>>) >>
    /\ result = NoResult

\* The two factories.
NextFactories ==
    \/ apply(MaxObjsWide)
    \/ outerapply(MaxObjsWide)

SpecFactories ==
    Init /\ [][NextFactories]_vars

\* Construction, grouping, the from-objects and select().
NextTree ==
    \/ outerapply(MaxObjs)
    \/ SelfGroup
    \/ FromObjects
    \/ SelectCall

SpecTree ==
    Init /\ [][NextTree]_vars

\* Construction, grouping and the ancestry query.
NextDerived ==
    \/ outerapply(MaxObjs)
    \/ SelfGroup
    \/ IsDerivedFrom

SpecDerived ==
    Init /\ [][NextDerived]_vars

\* Construction, column access, a table gaining a column, refresh.
NextCols ==
    \/ outerapply(MaxObjsWide)
    \/ ColumnsAccess
    \/ AppendColumn
    \/ Refresh

SpecCols ==
    Init /\ [][NextCols]_vars

(***************************************************************************)
(* The claims.                                                             *)
(***************************************************************************)

\* The construction result is that of one of the two factories and it
\* returned an Apply.
Built ==
    result.op \in {"apply", "outerapply"} /\ ~result.raised

\* C1: for every pair of valid relations, the Apply that apply(left, right)
\* returns has isouter false and the Apply that outerapply(left, right)
\* returns has isouter true.
C1_FactoriesSetIsOuter ==
    /\ (result.op = "apply" /\ result.arg = "default" /\ ~result.raised)
          => heap[result.self].isouter = FALSE
    /\ (result.op = "outerapply" /\ ~result.raised)
          => heap[result.self].isouter = TRUE
    /\ (result.op \in {"apply", "outerapply"}
          /\ result.left \in DOMAIN heap /\ result.right \in DOMAIN heap)
          => (~result.raised /\ IsApply(heap, result.self))

\* C1 witness: outerapply() has just returned an outer Apply whose left
\* side is an inner Apply that apply() returned before.
C1_Witness ==
    /\ result.op = "outerapply" /\ ~result.raised
    /\ heap[result.self].isouter
    /\ IsApply(heap, result.left)
    /\ ~heap[result.left].isouter

\* The relations reachable from a relation through left, right and element,
\* the relation itself included.
RECURSIVE Subtree(_, _)
Subtree(h, id) ==
    IF h[id].kind = "apply"
    THEN {id} \cup Subtree(h, h[id].left) \cup Subtree(h, h[id].right)
    ELSE IF h[id].kind = "grouping"
    THEN {id} \cup Subtree(h, h[id].element)
    ELSE {id}

\* The first-occurrence order of the keys of a sequence of columns, each
\* key with the last column that has it.
LastWins(cols) ==
    LET first == {i \in DOMAIN cols :
                     \A j \in 1..(i - 1) :
                         _key_label(cols[j]) # _key_label(cols[i])}
        last(k) == CHOOSE i \in DOMAIN cols :
                     /\ _key_label(cols[i]) = k
                     /\ \A j \in DOMAIN cols :
                            _key_label(cols[j]) = k => j <= i
        nth(n) == CHOOSE i \in first : Cardinality({j \in first : j <= i}) = n
    IN  [n \in 1..Cardinality(first) |->
            <<_key_label(cols[nth(n)]), cols[last(_key_label(cols[nth(n)]))]>>]

\* C2: a collection that an access has just populated is the columns of
\* left followed by those of right, one entry per key in the order the
\* keys first appear, each key with the last column that has it; a
\* collision raises nothing.
C2_ColumnsAreLeftThenRightLastWins ==
    (result.op = "columns" /\ result.flag)
        => /\ ~result.raised
           /\ heap[result.self].populated
           /\ heap[result.self].columns
                 = LastWins(columns(heap, heap[result.self].left)
                              \o columns(heap, heap[result.self].right))
           /\ result.seq = ValuesOf(heap[result.self].columns)

\* C2 witness: the example of the specification: left [a, b], right
\* [b, c]; the collection is [a, b (right's), c].
C2_Witness ==
    /\ result.op = "columns" /\ result.flag
    /\ heap[result.self].left = 1
    /\ heap[result.self].right = 2
    /\ heap[result.self].columns
          = << <<"a", Column(1, "a")>>, <<"b", Column(2, "b")>>,
               <<"c", Column(2, "c")>> >>

\* C3: the from-objects of an Apply are the Apply itself, then the
\* from-objects of left, then those of right.
C3_FromObjectsSelfLeftRight ==
    result.op = "from_objects"
        => /\ Head(result.seq) = result.self
           /\ result.seq
                 = <<result.self>>
                      \o _from_objects(heap, heap[result.self].left)
                      \o _from_objects(heap, heap[result.self].right)
           /\ \A i \in 2..Len(result.seq) :
                  result.seq[i] \in Subtree(heap, result.self) \ {result.self}

\* C3 witness: the from-objects of an Apply whose left side is an Apply and
\* whose right side is a grouping of an Apply.
C3_Witness ==
    /\ result.op = "from_objects"
    /\ IsApply(heap, heap[result.self].left)
    /\ IsGrouping(heap, heap[result.self].right)
    /\ Len(result.seq) = 7

\* C4: an Apply is derived from a relation exactly when the relation is in
\* its subtree (itself, its inputs, what they are derived from); left is
\* asked first and right only when left answered false.
C4_DerivedFromSubtree ==
    result.op = "is_derived_from"
        => LET a == result.self
               x == result.value
           IN  /\ result.flag = (x \in Subtree(heap, a))
               /\ result.steps
                     = IF x = a THEN <<>>
                       ELSE IF x \in Subtree(heap, heap[a].left)
                       THEN <<"left">>
                       ELSE <<"left", "right">>

\* C4 witness: the Apply given as right at construction, stored inside a
\* grouping: left is asked and answers false, right answers true.
C4_Witness ==
    /\ result.op = "is_derived_from"
    /\ result.flag
    /\ result.steps = <<"left", "right">>
    /\ IsGrouping(heap, heap[result.self].right)
    /\ heap[heap[result.self].right].element = result.value
    /\ IsApply(heap, result.value)

\* C5: self_group() of an Apply returns a grouping whose element is the
\* Apply, never the Apply itself, whatever against is.
C5_SelfGroupWraps ==
    (result.op = "self_group" /\ IsApply(heap, result.self))
        => /\ result.value # result.self
           /\ IsGrouping(heap, result.value)
           /\ heap[result.value].element = result.self

\* C5 witness: self_group() of an Apply with a context argument.
C5_Witness ==
    /\ result.op = "self_group"
    /\ IsApply(heap, result.self)
    /\ result.arg = "operator"
    /\ IsGrouping(heap, result.value)

\* C6: the right side stored is the grouped form of the right input: an
\* Apply is stored in one grouping, and a grouping of an Apply is stored
\* as it is, not wrapped a second time; such a construction succeeds.
C6_RightIsGroupedOnce ==
    /\ Built
          => LET r == heap[result.self].right
             IN  /\ IsApply(heap, result.right)
                      => /\ IsGrouping(heap, r)
                         /\ heap[r].element = result.right
                 /\ IsGrouping(heap, result.right)
                      => /\ r = result.right
                         /\ ~IsGrouping(heap, heap[r].element)
                 /\ ~IsApply(heap, r)
    /\ (result.op \in {"apply", "outerapply"}
          /\ result.left \in DOMAIN heap
          /\ (IsApply(heap, result.right) \/ IsGrouping(heap, result.right)))
          => ~result.raised

\* C6 witness: the right input is already a grouping of an Apply.
C6_Witness ==
    /\ Built
    /\ IsGrouping(heap, result.right)
    /\ IsApply(heap, heap[result.right].element)
    /\ heap[result.self].right = result.right

\* C7: the statement select(where) returns has the Apply as its only
\* declared FROM source, where as its criterion and, as columns, those of
\* left followed by those of right, a shared key appearing twice.
C7_SelectFromApply ==
    result.op = "select"
        => /\ result.froms = <<result.self>>
           /\ result.where = result.arg
           /\ result.seq = columns(heap, heap[result.self].left)
                              \o columns(heap, heap[result.self].right)

\* C7 witness: select() with a criterion on an Apply of the two tables;
\* key b is selected twice.
C7_Witness ==
    /\ result.op = "select"
    /\ result.arg = "criterion"
    /\ result.seq = <<Column(1, "a"), Column(1, "b"),
                      Column(2, "b"), Column(2, "c")>>

\* C8: a construction whose left or right input is no relation raises the
\* conversion error; it returns no Apply, does not touch the right input
\* when the left one is refused, and leaves every object as it was.
C8_FailedConstructionIsAtomic ==
    /\ [](\A left \in Inputs(heap), right \in Inputs(heap) :
            (left = NotARelation \/ right = NotARelation)
               => LET r == __init__(heap, left, right, FALSE)
                  IN  /\ r.raised
                      /\ r.self = 0
                      /\ r.heap = heap
                      /\ (left = NotARelation
                            => r.steps = <<"expect_left">>))
    /\ [][(result'.op \in {"apply", "outerapply"} /\ result'.raised)
            => /\ heap' = heap
               /\ result'.error = "TypeConversionError"
               /\ result'.value = 0
               /\ (result'.left = NotARelation
                     => result'.steps = <<"expect_left">>)]_vars
    /\ [](result.op \in {"apply", "outerapply"}
            => (result.raised
                  <=> (result.left = NotARelation
                         \/ result.right = NotARelation)))

\* C8 witness: a construction was refused for its left input while its
\* right input was an Apply, which a successful construction would group.
C8_Witness ==
    /\ result.op \in {"apply", "outerapply"}
    /\ result.raised
    /\ result.left = NotARelation
    /\ IsApply(heap, result.right)

\* C9 as stated: left is notified, then right, and the base refresh of the
\* Apply runs after both.
C9_BaseRefreshRunsLast ==
    result.op = "refresh" => result.steps = <<"left", "right", "super">>

\* C9 as amended: the base refresh of the Apply runs first, then left is
\* notified, then right; each step once.
C9_BaseRefreshRunsFirst ==
    result.op = "refresh" => result.steps = <<"super", "left", "right">>

\* C9 witness: a refresh of a populated Apply for a column its left table
\* gained after the population; the collection has taken the column.
C9_Witness ==
    /\ result.op = "refresh"
    /\ heap[result.self].populated
    /\ heap[result.self].left = 1
    /\ <<"c", Column(1, "c")>>
          \in {heap[result.self].columns[i] :
                 i \in DOMAIN heap[result.self].columns}

\* C10: construction leaves the collection unpopulated, the first access
\* populates it, and no access or refresh makes a populated collection
\* unpopulated again.
C10_PopulatedOnceAndForAll ==
    /\ [](Built => ~heap[result.self].populated)
    /\ [](result.op = "columns" => heap[result.self].populated)
    /\ [][\A id \in DOMAIN heap :
             heap[id].populated
                => /\ id \in DOMAIN heap'
                   /\ heap'[id].populated]_vars

\* C10 witness: a refresh has changed a populated collection, which is
\* still populated.
C10_Witness ==
    /\ result.op = "refresh"
    /\ heap[result.self].populated
    /\ ValuesOf(heap[result.self].columns)
          # ValuesOf(LastWins(columns(heap, heap[result.self].left)
                                \o columns(heap, heap[result.self].right)))

=============================================================================
